---- MODULE Spec2Model ----
(***************************************************************************)
(* Model of jamwine/python-utils:                                          *)
(*   python_utils/scraping_utils.py  scrape_xpath, get_full_urls,          *)
(*                                   extract_urls_from_xpath               *)
(*   python_utils/generic_utils.py   save_output_in_json, load_json_file,  *)
(*                                   split_csv_into_multiple_csv,          *)
(*                                   split_csv_by_ratio_into_two_csv,      *)
(*                                   read_multiple_csv                     *)
(* The functions share no state, so each group has its own specification   *)
(* (SpecScrape, SpecJson, SpecSplit, SpecRead) over its own variables; the *)
(* variables of the other groups stay at their initial value.              *)
(***************************************************************************)
EXTENDS Integers, Sequences, FiniteSets, TLC

VARIABLES scall,
          jfs, jsaved, jcall,
          cfs, ccall,
          rfiles, rtask, rfuture, rpc, rnext, rdf_list, rpending, routcome

vars == <<scall, jfs, jsaved, jcall, cfs, ccall,
          rfiles, rtask, rfuture, rpc, rnext, rdf_list, rpending, routcome>>

scrapeVars == <<scall>>
jsonVars == <<jfs, jsaved, jcall>>
splitVars == <<cfs, ccall>>
readVars == <<rfiles, rtask, rfuture, rpc, rnext, rdf_list, rpending, routcome>>

(***************************************************************************)
(* Bounds.                                                                 *)
(***************************************************************************)
MaxUrls == 3
MaxMatches == 2
MaxRows == 7
MaxN == 7
MaxDen == 4
MaxFiles == 3

Min(a, b) == IF a < b THEN a ELSE b

SeqsUpTo(S, n) == UNION {[1..k -> S] : k \in 0..n}

(***************************************************************************)
(* ---------------------------- scraping_utils --------------------------- *)
(* Text is a sequence of characters; "/" is the URL separator.             *)
(***************************************************************************)
Sep == "/"

\* texts handed in as relative URLs or found by a query: empty, separators
\* only, separators in front, behind, on both sides and inside
Strings == {<<>>, <<Sep>>, <<Sep, Sep>>, <<"a">>, <<"b">>, <<"a", Sep>>, <<Sep, "a">>,
            <<Sep, "a", Sep>>, <<"a", Sep, "b">>}

\* texts handed in as root URL: with no, one and two trailing separators
Roots == {<<>>, <<Sep>>, <<"a">>, <<"a", Sep>>, <<"a", Sep, Sep>>}

\* Python values that reach the scraping helpers, as tagged records:
\* ty is the Python type, s the characters of a str, l the items of a list,
\* u the members of a set.
PyNone == [ty |-> "None", s |-> <<>>, l |-> <<>>, u |-> {}]
PyInt == [ty |-> "int", s |-> <<>>, l |-> <<>>, u |-> {}]
PyStr(s) == [ty |-> "str", s |-> s, l |-> <<>>, u |-> {}]
PyList(l) == [ty |-> "list", s |-> <<>>, l |-> l, u |-> {}]
PySet(u) == [ty |-> "set", s |-> <<>>, l |-> <<>>, u |-> u]

Returns(v) == [exc |-> "", val |-> v]
Raises(e) == [exc |-> e, val |-> PyNone]

\* bool(v) for the values above
Truthy(v) ==
    CASE v.ty = "None" -> FALSE
      [] v.ty = "str" -> v.s # <<>>
      [] v.ty = "list" -> v.l # <<>>
      [] v.ty = "set" -> v.u # {}
      [] OTHER -> TRUE

\* A response is opaque and owned by the caller: all the helpers see of it is
\* what response.xpath(xpath).extract() does, raise or hand back a list.
Responses == {[raises |-> TRUE, data |-> <<>>]}
             \cup {[raises |-> FALSE, data |-> d] : d \in SeqsUpTo(Strings, MaxMatches)}

Queries == {PyStr(<<>>), PyStr(<<Sep, "a">>), PyInt, PyNone}

RECURSIVE LStrip(_)
LStrip(s) == IF s # <<>> /\ Head(s) = Sep THEN LStrip(Tail(s)) ELSE s

RECURSIVE RStrip(_)
RStrip(s) == IF s # <<>> /\ s[Len(s)] = Sep THEN RStrip(SubSeq(s, 1, Len(s) - 1)) ELSE s

\* str.strip('/')
Strip(s) == RStrip(LStrip(s))

\* str.endswith('/')
EndsWithSep(s) == s # <<>> /\ s[Len(s)] = Sep

AlwaysAppendSep(root) == Append(root, Sep)

\* if not root_url.endswith('/'): root_url += '/'
EnsureTrailingSep(root) == IF EndsWithSep(root) THEN root ELSE Append(root, Sep)

\* [root_url + url.strip('/') for url in urls if url.strip('/')]
RECURSIVE JoinStripped(_, _)
JoinStripped(root, urls) ==
    IF urls = <<>> THEN <<>>
    ELSE LET u == Strip(Head(urls))
             rest == JoinStripped(root, Tail(urls))
         IN IF u # <<>> THEN <<root \o u>> \o rest ELSE rest

EmptyListAsIs(data) == PyList(data)

\* return data if data else None
DataOrNone(data) == IF data # <<>> THEN PyList(data) ELSE PyNone

scrape_xpath(response, xpath) ==
    IF ~Truthy(xpath) \/ xpath.ty # "str" THEN Raises("ValueError")
    ELSE IF response.raises THEN Returns(PyNone)
    ELSE Returns(DataOrNone(response.data))

get_full_urls(root_url, urls) ==
    IF root_url.ty # "str" THEN Raises("ValueError")
    ELSE IF urls.ty # "list" THEN Raises("ValueError")
    ELSE Returns(PyList(JoinStripped(EnsureTrailingSep(root_url.s), urls.l)))

Range(f) == {f[i] : i \in DOMAIN f}

EmptySetWhenNothing(urls) == PySet({})

\* the else branch of the conditional expression of extract_urls_from_xpath
NothingExtracted(urls) == PyNone

extract_urls_from_xpath(response, xpath, root_url) ==
    LET scraped == scrape_xpath(response, xpath)
    IN IF scraped.exc # "" THEN scraped
       ELSE IF Truthy(scraped.val)
            THEN LET full == get_full_urls(root_url, scraped.val)
                 IN IF full.exc # "" THEN full ELSE Returns(PySet(Range(full.val.l)))
            ELSE Returns(NothingExtracted(scraped.val))

NoResponse == [raises |-> FALSE, data |-> <<>>]

ScrapeIdle == [op |-> "none", response |-> NoResponse, xpath |-> PyNone,
               root_url |-> PyNone, urls |-> PyNone, result |-> Returns(PyNone)]

RootUrls == {PyStr(s) : s \in Roots} \cup {PyNone}
UrlLists == {PyList(l) : l \in SeqsUpTo(Strings, MaxUrls)} \cup {PyNone}

ScrapeInit == scall = ScrapeIdle

Call_scrape_xpath ==
    /\ scall.op = "none"
    /\ \E response \in Responses, xpath \in Queries :
         scall' = [ScrapeIdle EXCEPT !.op = "scrape_xpath", !.response = response,
                                     !.xpath = xpath,
                                     !.result = scrape_xpath(response, xpath)]

Call_get_full_urls ==
    /\ scall.op = "none"
    /\ \E root_url \in RootUrls, urls \in UrlLists :
         scall' = [ScrapeIdle EXCEPT !.op = "get_full_urls", !.root_url = root_url,
                                     !.urls = urls,
                                     !.result = get_full_urls(root_url, urls)]

Call_extract_urls_from_xpath ==
    /\ scall.op = "none"
    /\ \E response \in Responses, xpath \in Queries, root_url \in RootUrls :
         scall' = [ScrapeIdle EXCEPT !.op = "extract_urls_from_xpath",
                                     !.response = response, !.xpath = xpath,
                                     !.root_url = root_url,
                                     !.result = extract_urls_from_xpath(response, xpath, root_url)]

(***************************************************************************)
(* ------------------------- generic_utils: JSON ------------------------- *)
(* Python values handed to save_output_in_json, as tagged records: ty is   *)
(* the Python type, v the literal of a scalar (its JSON spelling), elems   *)
(* the items of a list or tuple, items the (key, value) pairs of a dict.   *)
(***************************************************************************)
JAtom(ty, v) == [ty |-> ty, v |-> v, elems |-> <<>>, items |-> {}]
JNone == JAtom("None", "null")
JTrue == JAtom("bool", "true")
JInt(v) == JAtom("int", v)
JStr(v) == JAtom("str", v)
JList(elems) == [ty |-> "list", v |-> "", elems |-> elems, items |-> {}]
JTuple(elems) == [ty |-> "tuple", v |-> "", elems |-> elems, items |-> {}]
JDict(items) == [ty |-> "dict", v |-> "", elems |-> <<>>, items |-> items]
JSetOf(elems) == [ty |-> "set", v |-> "", elems |-> elems, items |-> {}]

JsonData == {JNone, JTrue, JInt("1"), JStr("a"),
             JList(<<>>), JList(<<JInt("1"), JStr("a")>>),
             JTuple(<<JInt("1")>>), JList(<<JTuple(<<JStr("a")>>)>>),
             JDict({<<JStr("k"), JInt("1")>>}),
             JDict({<<JInt("1"), JStr("a")>>}),
             JDict({<<JStr("k"), JInt("1")>>, <<JInt("1"), JStr("a")>>}),
             JSetOf(<<JInt("1")>>)}

Descriptions == {JStr(""), JStr("L"), JStr("data")}

\* The JSON text of a file, as the tree it spells: j is the JSON kind.
TNode(j, v, elems, members) == [j |-> j, v |-> v, elems |-> elems, members |-> members]
TNull == TNode("null", "null", <<>>, {})

\* sorted(dct.items()) of the encoder (sort_keys=True) compares the keys:
\* str with str and int/bool with int/bool only.
KeyClass(k) == CASE k.ty = "str" -> "str"
                 [] k.ty \in {"int", "bool"} -> "num"
                 [] OTHER -> k.ty

SortableKeys(items) ==
    \A p \in items, q \in items :
        p # q => /\ KeyClass(p[1]) = KeyClass(q[1])
                 /\ KeyClass(p[1]) \in {"str", "num"}

\* json.dump accepts the value: no TypeError from the encoder
RECURSIVE Encodable(_)
Encodable(x) ==
    CASE x.ty \in {"None", "bool", "int", "str"} -> TRUE
      [] x.ty \in {"list", "tuple"} -> \A i \in DOMAIN x.elems : Encodable(x.elems[i])
      [] x.ty = "dict" -> /\ \A p \in x.items : p[1].ty \in {"str", "int", "bool", "None"}
                          /\ SortableKeys(x.items)
                          /\ \A p \in x.items : Encodable(p[2])
      [] OTHER -> FALSE

\* the encoder spells every key as a JSON string
KeyText(k) == k.v

\* json.dump: list and tuple both become an array, every dict key a string
RECURSIVE Encode(_)
Encode(x) ==
    CASE x.ty = "None" -> TNode("null", x.v, <<>>, {})
      [] x.ty = "bool" -> TNode("bool", x.v, <<>>, {})
      [] x.ty = "int" -> TNode("number", x.v, <<>>, {})
      [] x.ty = "str" -> TNode("string", x.v, <<>>, {})
      [] x.ty \in {"list", "tuple"} ->
            TNode("array", "", [i \in DOMAIN x.elems |-> Encode(x.elems[i])], {})
      [] x.ty = "dict" ->
            TNode("object", "", <<>>, {<<KeyText(p[1]), Encode(p[2])>> : p \in x.items})

\* json.load: an array becomes a list, an object a dict with str keys
RECURSIVE Decode(_)
Decode(t) ==
    CASE t.j = "null" -> JAtom("None", t.v)
      [] t.j = "bool" -> JAtom("bool", t.v)
      [] t.j = "number" -> JAtom("int", t.v)
      [] t.j = "string" -> JAtom("str", t.v)
      [] t.j = "array" -> JList([i \in DOMAIN t.elems |-> Decode(t.elems[i])])
      [] t.j = "object" -> JDict({<<JStr(p[1]), Decode(p[2])>> : p \in t.members})

\* Paths: "" is rejected by save, "ro/out.json" lies in a directory that does
\* not exist, so open(.., 'w') fails on it and the path never exists.
WritablePaths == {"out.json", "other.json"}
JsonPaths == WritablePaths \cup {"", "ro/out.json"}

Absent == [state |-> "absent", doc |-> TNull]
Malformed == [state |-> "malformed", doc |-> TNull]
JsonText(t) == [state |-> "json", doc |-> t]

DescriptionKeyVerbatim(data_description) == data_description

\* if data_description != '': {data_description: data} else: {'data': data}
DescriptionKey(data_description) ==
    IF data_description # JStr("") THEN data_description ELSE JStr("data")

\* What the with-block leaves in the file: the document, or, when json.dump
\* raises after open() truncated the file, the chunks written so far.
Dumped(data, data_description) ==
    LET wrapped == JDict({<<DescriptionKey(data_description), data>>})
    IN IF Encodable(wrapped) THEN JsonText(Encode(wrapped)) ELSE Malformed

JReturns(v) == [exc |-> "", val |-> v]
JRaises(e) == [exc |-> e, val |-> JNone]

\* raise json.JSONDecodeError(f"..."): the constructor takes (msg, doc, pos),
\* so the raise statement itself fails with TypeError
DecodeErrorHandler == "TypeError"

load_json_file(fs, file_path) ==
    IF file_path \notin WritablePaths \/ fs[file_path].state = "absent"
    THEN JRaises("FileNotFoundError")
    ELSE IF fs[file_path].state = "malformed" THEN JRaises(DecodeErrorHandler)
    ELSE JReturns(Decode(fs[file_path].doc))

NotSaved == [valid |-> FALSE, data |-> JNone, description |-> JStr("")]

JsonIdle == [op |-> "none", path |-> "", result |-> JReturns(JNone)]

JsonInit ==
    /\ jfs = [p \in WritablePaths |-> Absent]
    /\ jsaved = [p \in WritablePaths |-> NotSaved]
    /\ jcall = JsonIdle

\* save_output_in_json(output_file_path, data, data_description)
Call_save_output_in_json ==
    \E output_file_path \in JsonPaths, data \in JsonData, data_description \in Descriptions :
        LET call == [JsonIdle EXCEPT !.op = "save", !.path = output_file_path]
        IN IF output_file_path = ""
           THEN /\ jcall' = [call EXCEPT !.result = JRaises("ValueError")]
                /\ UNCHANGED <<jfs, jsaved>>
           ELSE IF output_file_path \notin WritablePaths
           THEN /\ jcall' = call
                /\ UNCHANGED <<jfs, jsaved>>
           ELSE /\ jcall' = call
                /\ jfs' = [jfs EXCEPT ![output_file_path] = Dumped(data, data_description)]
                /\ jsaved' = [jsaved EXCEPT ![output_file_path] =
                                [valid |-> TRUE, data |-> data,
                                 description |-> data_description]]

\* load_json_file(file_path)
Call_load_json_file ==
    \E file_path \in JsonPaths :
        /\ jcall' = [JsonIdle EXCEPT !.op = "load", !.path = file_path,
                                     !.result = load_json_file(jfs, file_path)]
        /\ UNCHANGED <<jfs, jsaved>>

(***************************************************************************)
(* ----------------------- generic_utils: CSV split ---------------------- *)
(* A dataset is the sequence of its rows (to_csv(index=False) writes the   *)
(* rows and no index).  A file name is the sequence of its dot-separated   *)
(* parts, as input_file.split(".") sees it; a part is a base text with an  *)
(* optional "_<idx>" suffix (idx = 0: no suffix).                          *)
(***************************************************************************)
Part(base) == [base |-> base, idx |-> 0]
Numbered(base, i) == [base |-> base, idx |-> i]

DataCsv == <<Part("data"), Part("csv")>>
MyDataCsv == <<Part("my"), Part("data"), Part("csv")>>
DataNoExt == <<Part("data")>>
MissingCsv == <<Part("missing"), Part("csv")>>
InputFiles == {DataCsv, MyDataCsv, DataNoExt, MissingCsv}

Split1Csv == <<Part("split1"), Part("csv")>>
Split2Csv == <<Part("split2"), Part("csv")>>
OutputFiles == {Split1Csv, Split2Csv}

\* output_file_name, *file_format = input_file.split("."); file_format[-1] or ''
OutputFileName(input_file) == Head(input_file).base
FileFormat(input_file) == IF Len(input_file) > 1 THEN input_file[Len(input_file)].base ELSE ""

\* f"{output_file_name}_{i}.{file_format}"
SliceFile(input_file, i) ==
    <<Numbered(OutputFileName(input_file), i), Part(FileFormat(input_file))>>

CsvPaths == InputFiles \cup OutputFiles
            \cup {SliceFile(f, i) : f \in InputFiles, i \in 1..MaxN}

NoFile == [exists |-> FALSE, rows |-> <<>>]
CsvFile(rows) == [exists |-> TRUE, rows |-> rows]

Datasets == {[i \in 1..len |-> i] : len \in 0..MaxRows}

\* np.linspace(0, 1, n+1)[i] * len is computed in IEEE doubles and truncated by
\* np.int64: linspace yields i * (1/n) (and exactly 1.0 for i = n).  For the
\* triples (n, len, i) below the double product falls just under the exact
\* integer i*len/n, so the truncation is one less than the exact quotient
\* (all such triples with n, len <= 16).
LinspaceShortfall == {<<7, 7, 5>>, <<7, 14, 5>>, <<9, 9, 7>>, <<12, 12, 7>>,
                      <<14, 7, 10>>, <<14, 14, 5>>, <<14, 14, 10>>, <<14, 14, 13>>}

\* np.int64(np.linspace(0, 1, number_of_output_files+1) * len(df)), 1-based here
split_indexes(number_of_output_files, len) ==
    [k \in 1..(number_of_output_files + 1) |->
        LET i == k - 1
        IN IF number_of_output_files = 0 THEN 0
           ELSE IF i = number_of_output_files THEN len
           ELSE ((i * len) \div number_of_output_files)
                - (IF <<number_of_output_files, len, i>> \in LinspaceShortfall THEN 1 ELSE 0)]

SliceInclusive(df, start_idx, end_idx) == SubSeq(df, start_idx + 1, Min(end_idx + 1, Len(df)))

\* df[start_idx:end_idx]
Slice(df, start_idx, end_idx) == SubSeq(df, start_idx + 1, end_idx)

SplitIndexRoundedUp(len, num, den) == (len * num + den - 1) \div den

\* int(len(df) * split_ratio) for split_ratio = num/den in [0, 1]: the double
\* product truncates to the exact quotient for every length and denominator
\* below 22
split_index(len, num, den) == (len * num) \div den

CsvIdle == [op |-> "none", input_file |-> <<>>, n |-> 0, num |-> 0, den |-> 1,
            out1 |-> <<>>, out2 |-> <<>>, df |-> <<>>, exc |-> "", writes |-> <<>>]

Written(path, rows) == [path |-> path, rows |-> rows]

\* the files after the to_csv calls of writes, in order
RECURSIVE ApplyWrites(_, _)
ApplyWrites(fs, writes) ==
    IF writes = <<>> THEN fs
    ELSE ApplyWrites([fs EXCEPT ![Head(writes).path] = CsvFile(Head(writes).rows)],
                     Tail(writes))

SplitInit ==
    /\ \E df \in Datasets :
         cfs = [p \in CsvPaths |-> IF p \in InputFiles \ {MissingCsv}
                                   THEN CsvFile(df) ELSE NoFile]
    /\ ccall = CsvIdle

\* split_csv_into_multiple_csv(input_file, number_of_output_files)
Call_split_csv_into_multiple_csv ==
    /\ ccall.op = "none"
    /\ \E input_file \in InputFiles, number_of_output_files \in 0..MaxN :
         LET call == [CsvIdle EXCEPT !.op = "split_csv_into_multiple_csv",
                                     !.input_file = input_file,
                                     !.n = number_of_output_files]
         IN IF ~cfs[input_file].exists
            THEN /\ ccall' = [call EXCEPT !.exc = "FileNotFoundError"]
                 /\ UNCHANGED cfs
            ELSE LET df == cfs[input_file].rows
                     idx == split_indexes(number_of_output_files, Len(df))
                     writes == [i \in 1..number_of_output_files |->
                                  Written(SliceFile(input_file, i),
                                          Slice(df, idx[i], idx[i + 1]))]
                 IN /\ ccall' = [call EXCEPT !.df = df, !.writes = writes]
                    /\ cfs' = ApplyWrites(cfs, writes)

Ratios == {<<num, den>> : num \in -1..(MaxDen + 1), den \in 1..MaxDen}

\* split_csv_by_ratio_into_two_csv(input_file, output_file1, output_file2, split_ratio)
Call_split_csv_by_ratio_into_two_csv ==
    /\ ccall.op = "none"
    /\ \E input_file \in InputFiles, output_file1 \in OutputFiles,
          output_file2 \in OutputFiles, split_ratio \in Ratios :
         LET num == split_ratio[1]
             den == split_ratio[2]
             call == [CsvIdle EXCEPT !.op = "split_csv_by_ratio_into_two_csv",
                                     !.input_file = input_file,
                                     !.out1 = output_file1, !.out2 = output_file2,
                                     !.num = num, !.den = den]
         IN IF ~cfs[input_file].exists
            THEN /\ ccall' = [call EXCEPT !.exc = "FileNotFoundError"]
                 /\ UNCHANGED cfs
            ELSE IF ~(0 <= num /\ num <= den)
            THEN /\ ccall' = [call EXCEPT !.exc = "ValueError"]
                 /\ UNCHANGED cfs
            ELSE LET df == cfs[input_file].rows
                     at == split_index(Len(df), num, den)
                     writes == <<Written(output_file1, Slice(df, 0, at)),
                                 Written(output_file2, Slice(df, at, Len(df)))>>
                 IN /\ ccall' = [call EXCEPT !.df = df, !.writes = writes]
                    /\ cfs' = ApplyWrites(cfs, writes)

(***************************************************************************)
(* --------------------- generic_utils: read_multiple_csv ---------------- *)
(* A DataFrame is the sequence of its rows, each with its index label.     *)
(* The caller submits one _read_csv task per file to a ThreadPoolExecutor, *)
(* collects the futures in submission order, leaves the with-block (which  *)
(* shuts the pool down) and concatenates.                                  *)
(***************************************************************************)
ReadPaths == {"a.csv", "b.csv", "c.csv", "missing.csv"}

\* the files on disk: b.csv has a header and no rows, missing.csv is not there
OnDisk(file) ==
    CASE file = "a.csv" -> [exists |-> TRUE, rows |-> <<1, 2, 3>>]
      [] file = "b.csv" -> [exists |-> TRUE, rows |-> <<>>]
      [] file = "c.csv" -> [exists |-> TRUE, rows |-> <<4>>]
      [] OTHER -> [exists |-> FALSE, rows |-> <<>>]

\* pd.read_csv: the rows with a fresh RangeIndex
Frame(rows) == [i \in 1..Len(rows) |-> [index |-> i - 1, row |-> rows[i]]]

Done(frame) == [exc |-> "", frame |-> frame]
Failed(e) == [exc |-> e, frame |-> <<>>]
NoFuture == Done(<<>>)

ReadCsvSkipsMissing(file) == Done(Frame(OnDisk(file).rows))

\* _read_csv(file)
ReadCsv(file) ==
    IF ~OnDisk(file).exists THEN Failed("FileNotFoundError")
    ELSE Done(Frame(OnDisk(file).rows))

RECURSIVE Flatten(_)
Flatten(frames) == IF frames = <<>> THEN <<>> ELSE Head(frames) \o Flatten(Tail(frames))

\* pd.concat(df_list, ignore_index=True)
Concat(df_list) ==
    IF df_list = <<>> THEN Failed("ValueError")
    ELSE LET all == Flatten(df_list)
         IN Done([i \in 1..Len(all) |-> [index |-> i - 1, row |-> all[i].row]])

\* ThreadPoolExecutor() is built without max_workers, so the pool holds
\* min(32, os.cpu_count() + 4) threads: 5 on the smallest host, more elsewhere.
\* The smallest pool is modelled; a call with at most 5 files never queues
\* behind a busy pool, whatever the host.
max_workers == 5

Running == {i \in DOMAIN rtask : rtask[i] = "running"}

ShutdownNoWait == TRUE

\* ThreadPoolExecutor.__exit__: shutdown(wait=True) joins the worker threads,
\* which drain the work queue before they stop
ShutdownWaits == \A i \in DOMAIN rtask : rtask[i] = "done"

ReadInit ==
    /\ rfiles \in SeqsUpTo(ReadPaths, MaxFiles)
    /\ rtask = [i \in DOMAIN rfiles |-> "unsubmitted"]
    /\ rfuture = [i \in DOMAIN rfiles |-> NoFuture]
    /\ rpc = "submit"
    /\ rnext = 1
    /\ rdf_list = <<>>
    /\ rpending = ""
    /\ routcome = NoFuture

\* executor.submit(_read_csv, file) for the next file of the list
Submit ==
    /\ rpc = "submit"
    /\ \E i \in DOMAIN rtask :
         /\ rtask[i] = "unsubmitted"
         /\ \A j \in 1..(i - 1) : rtask[j] # "unsubmitted"
         /\ rtask' = [rtask EXCEPT ![i] = "queued"]
    /\ UNCHANGED <<rfiles, rfuture, rpc, rnext, rdf_list, rpending, routcome>>

\* the list comprehension is exhausted: on to the result loop
Submitted ==
    /\ rpc = "submit"
    /\ \A i \in DOMAIN rtask : rtask[i] # "unsubmitted"
    /\ rpc' = "collect"
    /\ UNCHANGED <<rfiles, rtask, rfuture, rnext, rdf_list, rpending, routcome>>

\* a free worker thread takes the oldest queued work item
WorkerStart ==
    /\ \E i \in DOMAIN rtask :
         /\ rtask[i] = "queued"
         /\ \A j \in 1..(i - 1) : rtask[j] # "queued"
         /\ Cardinality(Running) < max_workers
         /\ rtask' = [rtask EXCEPT ![i] = "running"]
    /\ UNCHANGED <<rfiles, rfuture, rpc, rnext, rdf_list, rpending, routcome>>

\* the worker runs _read_csv and sets the future's result or exception
WorkerFinish ==
    /\ \E i \in DOMAIN rtask :
         /\ rtask[i] = "running"
         /\ rtask' = [rtask EXCEPT ![i] = "done"]
         /\ rfuture' = [rfuture EXCEPT ![i] = ReadCsv(rfiles[i])]
    /\ UNCHANGED <<rfiles, rpc, rnext, rdf_list, rpending, routcome>>

\* df = future.result(); if len(df): df_list.append(df)
Collect ==
    /\ rpc = "collect"
    /\ rnext <= Len(rfiles)
    /\ rtask[rnext] = "done"
    /\ IF rfuture[rnext].exc # ""
       THEN /\ rpending' = rfuture[rnext].exc
            /\ rpc' = "exit"
            /\ UNCHANGED <<rnext, rdf_list>>
       ELSE /\ rdf_list' = IF Len(rfuture[rnext].frame) > 0
                           THEN Append(rdf_list, rfuture[rnext].frame)
                           ELSE rdf_list
            /\ rnext' = rnext + 1
            /\ UNCHANGED <<rpc, rpending>>
    /\ UNCHANGED <<rfiles, rtask, rfuture, routcome>>

\* the for loop is exhausted: leave the with-block normally
LoopDone ==
    /\ rpc = "collect"
    /\ rnext > Len(rfiles)
    /\ rpc' = "exit"
    /\ UNCHANGED <<rfiles, rtask, rfuture, rnext, rdf_list, rpending, routcome>>

\* the with-block's __exit__; an exception in flight is re-raised after it
ExecutorExit ==
    /\ rpc = "exit"
    /\ ShutdownWaits
    /\ IF rpending # ""
       THEN /\ rpc' = "raised"
            /\ routcome' = Failed(rpending)
       ELSE /\ rpc' = "concat"
            /\ UNCHANGED routcome
    /\ UNCHANGED <<rfiles, rtask, rfuture, rnext, rdf_list, rpending>>

\* combined_df = pd.concat(df_list, ignore_index=True); return combined_df
ConcatAndReturn ==
    /\ rpc = "concat"
    /\ routcome' = Concat(rdf_list)
    /\ rpc' = IF Concat(rdf_list).exc # "" THEN "raised" ELSE "returned"
    /\ UNCHANGED <<rfiles, rtask, rfuture, rnext, rdf_list, rpending>>

(***************************************************************************)
(* Specifications.                                                         *)
(***************************************************************************)
ReadIdle ==
    /\ rfiles = <<>>
    /\ rtask = <<>>
    /\ rfuture = <<>>
    /\ rpc = "idle"
    /\ rnext = 1
    /\ rdf_list = <<>>
    /\ rpending = ""
    /\ routcome = NoFuture

SplitIdle == cfs = [p \in CsvPaths |-> NoFile] /\ ccall = CsvIdle

InitScrape == ScrapeInit /\ JsonInit /\ SplitIdle /\ ReadIdle
NextScrape ==
    \/ Call_scrape_xpath /\ UNCHANGED <<jsonVars, splitVars, readVars>>
    \/ Call_get_full_urls /\ UNCHANGED <<jsonVars, splitVars, readVars>>
    \/ Call_extract_urls_from_xpath /\ UNCHANGED <<jsonVars, splitVars, readVars>>
SpecScrape == InitScrape /\ [][NextScrape]_vars

InitJson == ScrapeInit /\ JsonInit /\ SplitIdle /\ ReadIdle
NextJson ==
    \/ Call_save_output_in_json /\ UNCHANGED <<scrapeVars, splitVars, readVars>>
    \/ Call_load_json_file /\ UNCHANGED <<scrapeVars, splitVars, readVars>>
SpecJson == InitJson /\ [][NextJson]_vars

InitSplit == ScrapeInit /\ JsonInit /\ SplitInit /\ ReadIdle
NextSplit ==
    \/ Call_split_csv_into_multiple_csv /\ UNCHANGED <<scrapeVars, jsonVars, readVars>>
    \/ Call_split_csv_by_ratio_into_two_csv /\ UNCHANGED <<scrapeVars, jsonVars, readVars>>
SpecSplit == InitSplit /\ [][NextSplit]_vars

InitRead == ScrapeInit /\ JsonInit /\ SplitIdle /\ ReadInit
NextRead ==
    \/ Submit /\ UNCHANGED <<scrapeVars, jsonVars, splitVars>>
    \/ Submitted /\ UNCHANGED <<scrapeVars, jsonVars, splitVars>>
    \/ WorkerStart /\ UNCHANGED <<scrapeVars, jsonVars, splitVars>>
    \/ WorkerFinish /\ UNCHANGED <<scrapeVars, jsonVars, splitVars>>
    \/ Collect /\ UNCHANGED <<scrapeVars, jsonVars, splitVars>>
    \/ LoopDone /\ UNCHANGED <<scrapeVars, jsonVars, splitVars>>
    \/ ExecutorExit /\ UNCHANGED <<scrapeVars, jsonVars, splitVars>>
    \/ ConcatAndReturn /\ UNCHANGED <<scrapeVars, jsonVars, splitVars>>
SpecRead == InitRead /\ [][NextRead]_vars

(***************************************************************************)
(* Properties of the CSV split functions (SpecSplit).                      *)
(***************************************************************************)
RECURSIVE RowsInOrder(_)
RowsInOrder(writes) ==
    IF writes = <<>> THEN <<>> ELSE Head(writes).rows \o RowsInOrder(Tail(writes))

SplitIntoNRan ==
    /\ ccall.op = "split_csv_into_multiple_csv"
    /\ cfs[ccall.input_file].exists
    /\ ccall.n >= 1

\* C1: for every dataset and every n >= 1 (n larger than the row count and
\* zero-row datasets included) split_csv_into_multiple_csv writes exactly n
\* slices, the i-th to {stem}_{i}.{ext}, and the slices concatenated in index
\* order are the rows of the dataset in their original order.
C1_SlicesPartitionDataset ==
    SplitIntoNRan =>
        /\ ccall.exc = ""
        /\ ccall.df = cfs[ccall.input_file].rows
        /\ Len(ccall.writes) = ccall.n
        /\ \A i \in 1..ccall.n :
             /\ ccall.writes[i].path = SliceFile(ccall.input_file, i)
             /\ cfs[SliceFile(ccall.input_file, i)] = CsvFile(ccall.writes[i].rows)
        /\ RowsInOrder(ccall.writes) = ccall.df

C1_Witness ==
    /\ SplitIntoNRan
    /\ ccall.n = 3
    /\ ccall.df = <<1, 2>>
    /\ Len(ccall.writes) = 3
    /\ ccall.writes[1].rows = <<>>

\* floor(len * num/den), stated by its defining inequalities
FloorOfProduct(len, num, den) ==
    CHOOSE h \in 0..len : h * den <= len * num /\ len * num < (h + 1) * den

SplitByRatioRan ==
    /\ ccall.op = "split_csv_by_ratio_into_two_csv"
    /\ cfs[ccall.input_file].exists
    /\ 0 <= ccall.num /\ ccall.num <= ccall.den

\* C2: for every dataset D and ratio r in [0, 1] split_csv_by_ratio_into_two_csv
\* writes the first floor(|D|*r) rows of D to the first output and the remaining
\* |D| - floor(|D|*r) rows to the second, each in original order.
C2_RatioSplitsAtFloor ==
    SplitByRatioRan =>
        LET len == Len(ccall.df)
            h == FloorOfProduct(len, ccall.num, ccall.den)
            head == SubSeq(ccall.df, 1, h)
            tail == SubSeq(ccall.df, h + 1, len)
        IN /\ ccall.exc = ""
           /\ ccall.df = cfs[ccall.input_file].rows
           /\ ccall.writes = <<Written(ccall.out1, head), Written(ccall.out2, tail)>>
           /\ Len(head) = h /\ Len(tail) = len - h
           /\ ccall.out1 # ccall.out2 =>
                cfs[ccall.out1] = CsvFile(head) /\ cfs[ccall.out2] = CsvFile(tail)

C2_Witness ==
    /\ SplitByRatioRan
    /\ Len(ccall.df) = 7
    /\ ccall.num = 1 /\ ccall.den = 3
    /\ ccall.out1 # ccall.out2
    /\ cfs[ccall.out1].rows = <<1, 2>>
    /\ cfs[ccall.out2].rows = <<3, 4, 5, 6, 7>>

(***************************************************************************)
(* Properties of read_multiple_csv (SpecRead).                             *)
(***************************************************************************)
AllExist == \A i \in DOMAIN rfiles : OnDisk(rfiles[i]).exists

HandedBack == rpc \in {"returned", "raised"}

RECURSIVE RowsOfFiles(_)
RowsOfFiles(files) ==
    IF files = <<>> THEN <<>> ELSE OnDisk(Head(files)).rows \o RowsOfFiles(Tail(files))

\* C3: for every (non-empty) list of existing files and every interleaving,
\* read_multiple_csv returns the rows of the files that have rows, in path
\* order, indexed contiguously from zero.
C3_ReturnsRowsInPathOrder ==
    (HandedBack /\ rfiles # <<>> /\ AllExist) =>
        /\ rpc = "returned"
        /\ routcome = Done([i \in 1..Len(RowsOfFiles(rfiles)) |->
                              [index |-> i - 1, row |-> RowsOfFiles(rfiles)[i]]])

\* C4: if some path does not exist, the call raises FileNotFoundError in every
\* interleaving and never gets to build or return a combined dataset.
C4_MissingFileFailsCall ==
    ~AllExist =>
        /\ rpc \notin {"concat", "returned"}
        /\ rpc = "raised" => routcome = Failed("FileNotFoundError")

C4_Witness ==
    /\ rpc = "raised"
    /\ rfiles = <<"a.csv", "missing.csv", "c.csv">>
    /\ rdf_list # <<>>

\* C10: control goes back to the caller, by return or by raise, only after
\* every submitted read task has run to completion.
C10_AllTasksDoneAtReturn ==
    HandedBack =>
        \A i \in DOMAIN rfiles : rtask[i] = "done" /\ rfuture[i] = ReadCsv(rfiles[i])

C10_Witness ==
    /\ rpc = "raised"
    /\ rpending = "FileNotFoundError"
    /\ Len(rfiles) = 3
    /\ rfiles[1] = "missing.csv"

(***************************************************************************)
(* Properties of the JSON functions (SpecJson).                            *)
(***************************************************************************)
LoadAfterSave ==
    /\ jcall.op = "load"
    /\ jcall.path \in WritablePaths
    /\ jsaved[jcall.path].valid

\* C5 as stated: load after save(p, v, L) returns {L: v} for every
\* JSON-serializable v and every label L.
C5_RoundTripAnyLabel ==
    (LoadAfterSave /\ Encodable(jsaved[jcall.path].data)) =>
        jcall.result = JReturns(JDict({<<jsaved[jcall.path].description,
                                         jsaved[jcall.path].data>>}))

\* values JSON represents natively: None, bool, int, str, list, str-keyed dict
RECURSIVE NativeJson(_)
NativeJson(x) ==
    CASE x.ty \in {"None", "bool", "int", "str"} -> TRUE
      [] x.ty = "list" -> \A i \in DOMAIN x.elems : NativeJson(x.elems[i])
      [] x.ty = "dict" -> /\ \A p \in x.items : p[1].ty = "str"
                          /\ \A p \in x.items : NativeJson(p[2])
      [] OTHER -> FALSE

\* C5 amended: for v built from None, booleans, integers, text, lists and
\* text-keyed dicts, load after save(p, v, L) returns {L: v} when L is
\* non-empty and {"data": v} when L is the empty text.
C5_RoundTripNative ==
    (LoadAfterSave /\ NativeJson(jsaved[jcall.path].data)) =>
        LET L == jsaved[jcall.path].description
            key == IF L = JStr("") THEN JStr("data") ELSE L
        IN jcall.result = JReturns(JDict({<<key, jsaved[jcall.path].data>>}))

C5_Witness ==
    /\ LoadAfterSave
    /\ jsaved[jcall.path].description = JStr("")
    /\ jsaved[jcall.path].data = JList(<<JInt("1"), JStr("a")>>)
    /\ jcall.result = JReturns(JDict({<<JStr("data"), JList(<<JInt("1"), JStr("a")>>)>>}))

\* C6: load_json_file on an existing file whose content is not well-formed
\* JSON fails with json.JSONDecodeError.
C6_MalformedRaisesDecodeError ==
    (jcall.op = "load" /\ jcall.path \in WritablePaths
       /\ jfs[jcall.path].state = "malformed") =>
        jcall.result = JRaises("JSONDecodeError")

(***************************************************************************)
(* Properties of the scraping helpers (SpecScrape).                        *)
(***************************************************************************)
OnlySeps(s) == \A i \in DOMAIN s : s[i] = Sep

\* s without its leading and trailing separators, stated by what it is: the
\* part of s between a separator-only prefix and a separator-only suffix that
\* neither starts nor ends with a separator
StrippedOf(s) ==
    CHOOSE t \in {SubSeq(s, i, j) : i \in 1..(Len(s) + 1), j \in 0..Len(s)} :
        \E a \in 1..(Len(s) + 1), b \in 0..Len(s) :
            /\ t = SubSeq(s, a, b)
            /\ OnlySeps(SubSeq(s, 1, a - 1))
            /\ OnlySeps(SubSeq(s, b + 1, Len(s)))
            /\ t = <<>> \/ (t[1] # Sep /\ t[Len(t)] # Sep)

KeepsUrl(u) == StrippedOf(u) # <<>>

JoinedTo(root, relatives) ==
    LET kept == SelectSeq(relatives, KeepsUrl)
    IN [i \in 1..Len(kept) |-> root \o StrippedOf(kept[i])]

GetFullUrlsRan ==
    /\ scall.op = "get_full_urls"
    /\ scall.root_url.ty = "str"
    /\ scall.urls.ty = "list"

\* root cut back to its last non-separator character, plus one separator
WithExactlyOneSep(root) ==
    LET n == CHOOSE k \in 0..Len(root) :
                 /\ OnlySeps(SubSeq(root, k + 1, Len(root)))
                 /\ k = 0 \/ root[k] # Sep
    IN Append(SubSeq(root, 1, n), Sep)

\* C7 as stated: every kept relative is appended to root normalized to end
\* with exactly one separator.
C7_RootEndsWithExactlyOneSep ==
    GetFullUrlsRan =>
        scall.result = Returns(PyList(JoinedTo(WithExactlyOneSep(scall.root_url.s),
                                               scall.urls.l)))

\* root as it is when it already ends with a separator, else plus one
WithTrailingSep(root) ==
    IF root # <<>> /\ root[Len(root)] = Sep THEN root ELSE root \o <<Sep>>

\* C7 amended: get_full_urls returns, in order and with duplicates, one URL per
\* relative that is non-empty after stripping separators: root (given one
\* trailing separator only when it ends with none) followed by the stripped
\* relative.
C7_JoinsStrippedRelatives ==
    GetFullUrlsRan =>
        scall.result = Returns(PyList(JoinedTo(WithTrailingSep(scall.root_url.s),
                                               scall.urls.l)))

C7_Witness ==
    /\ GetFullUrlsRan
    /\ scall.root_url.s = <<"a", Sep>>
    /\ scall.urls.l = << <<"a", Sep>>, <<Sep>>, <<Sep, "a", Sep>> >>
    /\ scall.result.val.l = << <<"a", Sep, "a">>, <<"a", Sep, "a">> >>

ValidQuery(xpath) == xpath.ty = "str" /\ xpath.s # <<>>

\* C8: with a valid query extract_urls_from_xpath returns None when the
\* extraction produced nothing (the query raised or matched nothing), else the
\* set of the URLs get_full_urls builds from the matches.
C8_NoneOrSetOfFullUrls ==
    (scall.op = "extract_urls_from_xpath" /\ ValidQuery(scall.xpath)
       /\ scall.root_url.ty = "str") =>
        IF scall.response.raises \/ scall.response.data = <<>>
        THEN scall.result = Returns(PyNone)
        ELSE /\ scall.result.exc = ""
             /\ scall.result.val.ty = "set"
             /\ scall.result.val.u =
                  Range(get_full_urls(scall.root_url, PyList(scall.response.data)).val.l)

C8_Witness ==
    /\ scall.op = "extract_urls_from_xpath"
    /\ ValidQuery(scall.xpath)
    /\ scall.root_url = PyStr(<<"a">>)
    /\ scall.response.data = << <<"a", Sep>>, <<Sep, "a">> >>
    /\ scall.result = Returns(PySet({<<"a", Sep, "a">>}))

\* C9: scrape_xpath raises ValueError exactly when the query is empty or not
\* text; otherwise it raises nothing, returns None when the evaluation raised,
\* and returns either None or the non-empty list of matches.
C9_BestEffortExtraction ==
    scall.op = "scrape_xpath" =>
        /\ scall.result.exc = "ValueError" <=> ~ValidQuery(scall.xpath)
        /\ ValidQuery(scall.xpath) =>
             /\ scall.result.exc = ""
             /\ scall.response.raises => scall.result.val = PyNone
             /\ \/ scall.result.val = PyNone
                \/ /\ scall.result.val.ty = "list"
                   /\ scall.result.val.l # <<>>
                   /\ scall.result.val.l = scall.response.data

C9_Witness ==
    /\ scall.op = "scrape_xpath"
    /\ ValidQuery(scall.xpath)
    /\ scall.response.raises
    /\ scall.result = Returns(PyNone)

====
